---- MODULE Spec2Model ----
(***************************************************************************)
(* Model of fastf1_race_util.py: prepare_driver_laps (the lap / stint      *)
(* reconciliation) and the bar geometry of plot_tyre_strategy.             *)
(*                                                                         *)
(* A lap row is a record [Driver, LapNumber, Stint]; Stint = Unset stands  *)
(* for a missing value (NaN, or no 'Stint' column at all).  The stints     *)
(* frame is a sequence of rows [Driver, StintLength] in stored order.      *)
(***************************************************************************)
EXTENDS Integers, Sequences, FiniteSets

\* ------------------------------------------------------------------ bounds
MaxLap == 2
MaxStintLen == 2
MaxStints == 2
MaxDrivers == 2

DriverIds == {"A", "B"}

\* ------------------------------------------------------- values and helpers
\* missing 'Stint' value of a lap row (NaN)
Unset == 0

\* enumerate(stint_lengths, start=1)
FirstStint == 1

SeqsUpTo(S, n) == UNION {[1..k -> S] : k \in 0..n}

\* the rows the lap source holds for one driver: laps 1..n in ascending order,
\* every row carrying the source's own stint value
SourceRows(d, n, s) ==
    [i \in 1..n |-> [Driver |-> d, LapNumber |-> i, Stint |-> s]]

\* ------------------------------------------------------------------- state
VARIABLES
    session_laps,      \* session.laps: driver id -> that driver's quick laps
    stints,            \* the stints frame
    drivers,           \* the drivers argument
    laps0, stints0,    \* the inputs as they were before any call
    status,            \* outcome of the last prepare_driver_laps call
    driver_laps_list,  \* the list built by the loop, as at line 224
    ranges,            \* per entry of drivers: the (stint_number, start_lap, end_lap) computed
    result,            \* the frame returned by the last call
    prev_status,       \* outcome of the call before the last
    prev_result,       \* frame returned by the call before the last
    plotted,           \* plot_tyre_strategy has run
    bars               \* the barh calls made, in order

vars == <<session_laps, stints, drivers, laps0, stints0, status, driver_laps_list,
          ranges, result, prev_status, prev_result, plotted, bars>>

\* ------------------------------------------------------ prepare_driver_laps
\* session.laps.pick_drivers(driver).pick_quicklaps().reset_index(drop=True)
pick_driver_laps(laps, driver) == laps[driver]

\* driver_laps['Driver'] = driver
tag_driver(driver_laps, driver) ==
    [i \in 1..Len(driver_laps) |-> [driver_laps[i] EXCEPT !.Driver = driver]]

\* the stints frame taken whole, without the selection by driver
AllStints(stints_frame, driver) == stints_frame

\* stints.loc[stints["Driver"] == driver]
driver_stints_of(stints_frame, driver) ==
    SelectSeq(stints_frame, LAMBDA r : r.Driver = driver)

\* driver_stints["StintLength"].tolist()
stint_lengths_of(driver_stints) ==
    [i \in 1..Len(driver_stints) |-> driver_stints[i].StintLength]

\* start_lap = 1, executed at the top of every driver's iteration
StartLapCarried(carried) == carried
start_lap_init(carried) == 1

\* end_lap = start_lap + stint_length - 1
EndLapExclusive(start_lap, stint_length) == start_lap + stint_length
end_lap_of(start_lap, stint_length) == start_lap + stint_length - 1

\* the stint_number enumerate(stint_lengths, start=1) yields at position k
StintNumberFromZero(k) == k - 1
stint_number_of(k) == FirstStint + (k - 1)

\* the mask without its upper comparison
AssignFromStart(driver_laps, start_lap, end_lap, stint_number) ==
    [i \in 1..Len(driver_laps) |->
        IF driver_laps[i].LapNumber >= start_lap
        THEN [driver_laps[i] EXCEPT !.Stint = stint_number]
        ELSE driver_laps[i]]

\* driver_laps.loc[(LapNumber >= start_lap) & (LapNumber <= end_lap), 'Stint'] = stint_number
assign_stint(driver_laps, start_lap, end_lap, stint_number) ==
    [i \in 1..Len(driver_laps) |->
        IF driver_laps[i].LapNumber >= start_lap /\ driver_laps[i].LapNumber <= end_lap
        THEN [driver_laps[i] EXCEPT !.Stint = stint_number]
        ELSE driver_laps[i]]

\* the for loop over enumerate(stint_lengths, start=1), from position k on
RECURSIVE stint_loop(_, _, _, _, _)
stint_loop(driver_laps, stint_lengths, k, start_lap, rs) ==
    IF k > Len(stint_lengths)
    THEN [laps |-> driver_laps, start_lap |-> start_lap, ranges |-> rs]
    ELSE LET stint_number == stint_number_of(k)
             end_lap == end_lap_of(start_lap, stint_lengths[k])
         IN  stint_loop(assign_stint(driver_laps, start_lap, end_lap, stint_number),
                        stint_lengths, k + 1, end_lap + 1,
                        Append(rs, [stint_number |-> stint_number,
                                    start_lap |-> start_lap, end_lap |-> end_lap]))

\* what session.laps holds after a driver's frame was written to: the frame is a
\* fresh object (boolean selection, reset_index), so nothing
StoreAliased(laps, driver, driver_laps) == [laps EXCEPT ![driver] = driver_laps]
session_laps_after(laps, driver, driver_laps) == laps

\* driver_laps_list.append(driver_laps)
ListPrepend(list, driver_laps) == <<driver_laps>> \o list
list_append(list, driver_laps) == Append(list, driver_laps)

\* the for loop over drivers, from position k on; carried is the value start_lap
\* has when an iteration begins, which line 215 overwrites
RECURSIVE drivers_loop(_, _, _, _, _, _, _)
drivers_loop(laps, stints_frame, ds, k, carried, list, rs) ==
    IF k > Len(ds)
    THEN [laps |-> laps, list |-> list, ranges |-> rs]
    ELSE LET driver == ds[k]
             driver_laps == tag_driver(pick_driver_laps(laps, driver), driver)
             lengths == stint_lengths_of(driver_stints_of(stints_frame, driver))
             done == stint_loop(driver_laps, lengths, 1, start_lap_init(carried), <<>>)
         IN  drivers_loop(session_laps_after(laps, driver, done.laps), stints_frame, ds,
                          k + 1, done.start_lap, list_append(list, done.laps),
                          Append(rs, done.ranges))

\* a concatenation that keeps only the first of equal rows
RECURSIVE DropDuplicates(_, _)
DropDuplicates(rows, seen) ==
    IF rows = <<>> THEN <<>>
    ELSE IF Head(rows) \in seen THEN DropDuplicates(Tail(rows), seen)
    ELSE <<Head(rows)>> \o DropDuplicates(Tail(rows), seen \cup {Head(rows)})

RECURSIVE ConcatAll(_)
ConcatAll(list) ==
    IF list = <<>> THEN <<>> ELSE Head(list) \o ConcatAll(Tail(list))

ConcatDeduplicated(list) == DropDuplicates(ConcatAll(list), {})

\* pd.concat(driver_laps_list, ignore_index=True) of a non-empty list
RECURSIVE concat(_)
concat(list) ==
    IF list = <<>> THEN <<>> ELSE Head(list) \o concat(Tail(list))

\* pd.concat raises ValueError("No objects to concatenate") on an empty list
concat_raises(list) == list = <<>>

\* the list a call starts from: driver_laps_list = []
fresh_list(list) == <<>>

PrepareDriverLaps ==
    \E run \in {drivers_loop(session_laps, stints, drivers, 1, 1,
                               fresh_list(driver_laps_list), <<>>)} :
        /\ session_laps' = run.laps
        /\ driver_laps_list' = run.list
        /\ ranges' = run.ranges
        /\ IF concat_raises(run.list)
           THEN /\ status' = "ValueError"
                /\ result' = <<>>
           ELSE /\ status' = "returned"
                /\ result' = concat(run.list)
        /\ prev_status' = status
        /\ prev_result' = result
        /\ UNCHANGED <<stints, drivers, laps0, stints0, plotted, bars>>

\* ------------------------------------------------------- plot_tyre_strategy
\* previous_stint_end = 0, executed for each driver
PreviousStintEndCarried(carried) == carried
previous_stint_end_init(carried) == 0

\* the for loop over driver_stints.iterrows(), from row k on
RECURSIVE bars_loop(_, _, _, _, _)
bars_loop(driver, driver_stints, k, previous_stint_end, bs) ==
    IF k > Len(driver_stints)
    THEN [bars |-> bs, previous_stint_end |-> previous_stint_end]
    ELSE bars_loop(driver, driver_stints, k + 1,
                   previous_stint_end + driver_stints[k].StintLength,
                   Append(bs, [y |-> driver, left |-> previous_stint_end,
                               width |-> driver_stints[k].StintLength]))

\* the for loop over drivers, from position k on; carried is the value
\* previous_stint_end has when an iteration begins, which line 164 overwrites
RECURSIVE plot_drivers_loop(_, _, _, _, _)
plot_drivers_loop(stints_frame, ds, k, carried, bs) ==
    IF k > Len(ds) THEN bs
    ELSE LET done == bars_loop(ds[k], driver_stints_of(stints_frame, ds[k]), 1,
                               previous_stint_end_init(carried), bs)
         IN  plot_drivers_loop(stints_frame, ds, k + 1, done.previous_stint_end, done.bars)

PlotTyreStrategy ==
    /\ bars' = plot_drivers_loop(stints, drivers, 1, 0, <<>>)
    /\ plotted' = TRUE
    /\ UNCHANGED <<session_laps, stints, drivers, laps0, stints0, status,
                   driver_laps_list, ranges, result, prev_status, prev_result>>

\* ----------------------------------------------------------- specification
Init ==
    /\ \E s \in {Unset, FirstStint} :
         session_laps \in {[d \in DriverIds |-> SourceRows(d, n[d], s)] :
                             n \in [DriverIds -> 0..MaxLap]}
    /\ stints \in SeqsUpTo([Driver : DriverIds, StintLength : 1..MaxStintLen], MaxStints)
    /\ drivers \in SeqsUpTo(DriverIds, MaxDrivers)
    /\ laps0 = session_laps
    /\ stints0 = stints
    /\ status = "not_called"
    /\ driver_laps_list = <<>>
    /\ ranges = <<>>
    /\ result = <<>>
    /\ prev_status = "not_called"
    /\ prev_result = <<>>
    /\ plotted = FALSE
    /\ bars = <<>>

Next == PrepareDriverLaps \/ PlotTyreStrategy

Spec == Init /\ [][Next]_vars

\* ------------------------------------------------------------------ claims
\* what the inputs say, read from the inputs as they were before any call
RECURSIVE PrefixSum(_, _)
PrefixSum(lengths, k) == IF k = 0 THEN 0 ELSE PrefixSum(lengths, k - 1) + lengths[k]

OwnRecords(d) == SelectSeq(stints0, LAMBDA r : r.Driver = d)
OwnLengths(d) == [i \in 1..Len(OwnRecords(d)) |-> OwnRecords(d)[i].StintLength]
OwnTotal(d) == PrefixSum(OwnLengths(d), Len(OwnLengths(d)))
LapCount(d) == Len(laps0[d])

\* rows of the result that precede the block of the k-th entry of drivers
RECURSIVE Offset(_)
Offset(k) == IF k = 1 THEN 0 ELSE Offset(k - 1) + LapCount(drivers[k - 1])

\* the j-th row of the block of the k-th entry of drivers
BlockRow(k, j) == result[Offset(k) + j]

Entries == 1..Len(drivers)
Returned == status = "returned"

\* the ranges of entry k that contain lap number n
RangesHolding(k, n) ==
    {i \in 1..Len(ranges[k]) : ranges[k][i].start_lap <= n /\ n <= ranges[k][i].end_lap}

\* C1: a driver with laps 1..N and positive stint lengths summing to at least N
\* has every lap in exactly one computed range, carries that range's stint
\* number in the output (the stint whose laps, counted from the stint lengths,
\* include it), and the stint numbers do not decrease along the laps.
C1_Coverage ==
    Returned =>
        \A k \in Entries :
            \A L \in {OwnLengths(drivers[k])} :
                PrefixSum(L, Len(L)) >= LapCount(drivers[k]) =>
                    /\ \A j \in 1..LapCount(drivers[k]) :
                         \A row \in {BlockRow(k, j)}, H \in {RangesHolding(k, j)} :
                             /\ row.LapNumber = j
                             /\ Cardinality(H) = 1
                             /\ \A i \in H : row.Stint = ranges[k][i].stint_number
                             /\ row.Stint \in 1..Len(L)
                             /\ PrefixSum(L, row.Stint - 1) < j
                             /\ j <= PrefixSum(L, row.Stint)
                    /\ \A j \in 1..(LapCount(drivers[k]) - 1) :
                         BlockRow(k, j).Stint <= BlockRow(k, j + 1).Stint

C1_Witness ==
    /\ Returned
    /\ \E k \in Entries :
         /\ LapCount(drivers[k]) >= 2
         /\ OwnTotal(drivers[k]) >= LapCount(drivers[k])
         /\ BlockRow(k, 1).Stint = 1
         /\ BlockRow(k, 2).Stint = 2

\* C2: the ranges computed for a driver start at lap 1, each next range starts
\* right after the previous one ends, range i carries stint number i, and the
\* ranges are pairwise disjoint and strictly increasing.
C2_Partition ==
    status # "not_called" =>
        /\ Len(ranges) = Len(drivers)
        /\ \A k \in Entries :
             LET rs == ranges[k]
             IN  /\ Len(rs) = Len(OwnLengths(drivers[k]))
                 /\ rs # <<>> => rs[1].start_lap = 1
                 /\ \A i \in 1..Len(rs) :
                      /\ rs[i].stint_number = i
                      /\ rs[i].start_lap <= rs[i].end_lap
                 /\ \A i \in 1..(Len(rs) - 1) :
                      rs[i + 1].start_lap = rs[i].end_lap + 1
                 /\ \A i, j \in 1..Len(rs) :
                      i < j => rs[i].end_lap < rs[j].start_lap

C2_Witness ==
    /\ Returned
    /\ \E k \in Entries :
         /\ Len(ranges[k]) >= 2
         /\ ranges[k][1].end_lap >= 2
         /\ ranges[k][2].start_lap = ranges[k][1].end_lap + 1

\* C3: a call with an empty drivers sequence does not raise and returns an
\* empty result.
C3_EmptyDriversReturnEmpty ==
    (drivers = <<>> /\ status # "not_called") => (Returned /\ result = <<>>)

\* C4 as stated: when the stint lengths of a driver sum to M < N, laps M+1..N
\* of that driver have an unset stint number, laps 1..M are assigned, and the
\* call does not raise.
C4_TailUnset ==
    status # "not_called" =>
        \A k \in Entries :
            OwnTotal(drivers[k]) < LapCount(drivers[k]) =>
                /\ Returned
                /\ \A j \in 1..LapCount(drivers[k]) :
                     IF j > OwnTotal(drivers[k])
                     THEN BlockRow(k, j).Stint = Unset
                     ELSE Cardinality(RangesHolding(k, j)) = 1
                          /\ \A i \in RangesHolding(k, j) :
                               BlockRow(k, j).Stint = ranges[k][i].stint_number

\* C4 as amended: when the stint lengths of a driver sum to M < N, laps M+1..N
\* of that driver keep the stint number the lap source supplied (unset when it
\* supplied none), laps 1..M are assigned from the ranges, and the call does
\* not raise.
C4_TailKeepsSource ==
    status # "not_called" =>
        \A k \in Entries :
            \A M \in {OwnTotal(drivers[k])} :
                M < LapCount(drivers[k]) =>
                    /\ Returned
                    /\ \A j \in 1..LapCount(drivers[k]) :
                         IF j > M
                         THEN BlockRow(k, j).Stint = laps0[drivers[k]][j].Stint
                         ELSE \A H \in {RangesHolding(k, j)} :
                                  /\ Cardinality(H) = 1
                                  /\ \A i \in H :
                                       BlockRow(k, j).Stint = ranges[k][i].stint_number

C4_Witness ==
    /\ Returned
    /\ \E k \in Entries :
         /\ OwnTotal(drivers[k]) >= 1
         /\ OwnTotal(drivers[k]) < LapCount(drivers[k])
         /\ laps0[drivers[k]][LapCount(drivers[k])].Stint # Unset
         /\ BlockRow(k, LapCount(drivers[k])).Stint = laps0[drivers[k]][LapCount(drivers[k])].Stint
         /\ BlockRow(k, 1).Stint = ranges[k][1].stint_number

\* C5: the returned frame has as many rows as the lap source yields for the
\* entries of drivers, counted with repetition.
C5_Cardinality ==
    Returned => Len(result) = Offset(Len(drivers)) + LapCount(drivers[Len(drivers)])

C5_Witness ==
    /\ Returned
    /\ Len(drivers) = 2
    /\ drivers[1] = drivers[2]
    /\ LapCount(drivers[1]) >= 1
    /\ Len(result) = 2 * LapCount(drivers[1])

\* C6: the returned frame is one block per entry of drivers, in the order of
\* drivers, and inside a block the laps are in the order the lap source has them.
C6_OrderPreserved ==
    Returned =>
        \A k \in Entries :
            \A j \in 1..LapCount(drivers[k]) :
                /\ Offset(k) + j <= Len(result)
                /\ BlockRow(k, j).Driver = drivers[k]
                /\ BlockRow(k, j).LapNumber = laps0[drivers[k]][j].LapNumber

C6_Witness ==
    /\ Returned
    /\ drivers = <<"B", "A">>
    /\ LapCount("B") >= 2
    /\ LapCount("A") >= 1
    /\ result[1].Driver = "B" /\ result[1].LapNumber = 1
    /\ result[2].Driver = "B" /\ result[2].LapNumber = 2
    /\ result[LapCount("B") + 1].Driver = "A"

\* number of rows of the result tagged with driver d
RowsOf(d) == Cardinality({i \in 1..Len(result) : result[i].Driver = d})

\* C7 as stated: a driver of drivers that lacks an entry in the lap source or
\* in the stint records contributes no row, and the call does not raise.
C7_MissingEntryNoRows ==
    status # "not_called" =>
        \A k \in Entries :
            (LapCount(drivers[k]) = 0 \/ OwnLengths(drivers[k]) = <<>>) =>
                (Returned /\ RowsOf(drivers[k]) = 0)

\* C7 as amended: a driver of drivers without laps in the lap source contributes
\* no row; a driver with laps but without stint records contributes all its laps
\* with the stint numbers the lap source supplied; the call does not raise.
C7_MissingEntry ==
    status # "not_called" =>
        \A k \in Entries :
            /\ Returned
            /\ LapCount(drivers[k]) = 0 => RowsOf(drivers[k]) = 0
            /\ OwnLengths(drivers[k]) = <<>> =>
                 \A j \in 1..LapCount(drivers[k]) :
                     BlockRow(k, j) = [laps0[drivers[k]][j] EXCEPT !.Driver = drivers[k]]

C7_Witness ==
    /\ Returned
    /\ \E k \in Entries :
         /\ LapCount(drivers[k]) = 0
         /\ OwnLengths(drivers[k]) # <<>>
    /\ \E k \in Entries :
         /\ LapCount(drivers[k]) >= 1
         /\ OwnLengths(drivers[k]) = <<>>
         /\ RowsOf(drivers[k]) = LapCount(drivers[k])

\* C8: calls leave the stint records and the laps stored in the lap source as
\* they were, and a repeated call ends as the call before it did, with an equal
\* result.
C8_PureIdempotent ==
    /\ session_laps = laps0
    /\ stints = stints0
    /\ prev_status # "not_called" => (status = prev_status /\ result = prev_result)

C8_Witness ==
    /\ prev_status = "returned"
    /\ Returned
    /\ \E k \in Entries :
         /\ LapCount(drivers[k]) >= 1
         /\ BlockRow(k, 1).Stint # laps0[drivers[k]][1].Stint

\* what a call with the single driver d and only d's own stint records returns
Alone(d) ==
    concat(drivers_loop(laps0, OwnRecords(d), <<d>>, 1, 1, <<>>, <<>>).list)

\* C9: the rows returned for an entry of drivers are the rows a call with that
\* driver alone and its own stint records returns, whatever the other entries
\* of drivers and their stint records are.
C9_Independent ==
    Returned =>
        \A k \in Entries :
            \A alone \in {Alone(drivers[k])} :
                /\ Len(alone) = LapCount(drivers[k])
                /\ \A j \in 1..LapCount(drivers[k]) : BlockRow(k, j) = alone[j]

C9_Witness ==
    /\ Returned
    /\ Len(drivers) = 2
    /\ drivers[1] # drivers[2]
    /\ OwnLengths(drivers[1]) # <<>>
    /\ LapCount(drivers[1]) >= 1
    /\ LapCount(drivers[2]) >= 1
    /\ OwnTotal(drivers[2]) >= 1
    /\ BlockRow(2, 1).Stint = 1
    /\ ranges[2][1].start_lap = 1

\* bars drawn before the first bar of the k-th entry of drivers
RECURSIVE BarOffset(_)
BarOffset(k) == IF k = 1 THEN 0 ELSE BarOffset(k - 1) + Len(OwnLengths(drivers[k - 1]))

\* C10: the i-th bar of a driver starts at the sum of the driver's earlier stint
\* lengths and is as wide as the i-th stint length, so it spans the laps that
\* prepare_driver_laps computes as the range of stint i.
C10_BarsMatchRanges ==
    (plotted /\ status # "not_called") =>
        \A k \in Entries :
            \A L \in {OwnLengths(drivers[k])}, at \in {BarOffset(k)} :
                \A i \in 1..Len(L) :
                    /\ at + i <= Len(bars)
                    /\ i <= Len(ranges[k])
                    /\ bars[at + i].y = drivers[k]
                    /\ bars[at + i].left = PrefixSum(L, i - 1)
                    /\ bars[at + i].width = L[i]
                    /\ ranges[k][i].stint_number = i
                    /\ ranges[k][i].start_lap = bars[at + i].left + 1
                    /\ ranges[k][i].end_lap = bars[at + i].left + bars[at + i].width

C10_Witness ==
    /\ plotted
    /\ Returned
    /\ Len(drivers) = 2
    /\ Len(OwnLengths(drivers[1])) >= 1
    /\ Len(OwnLengths(drivers[2])) >= 2
    /\ bars[BarOffset(2) + 2].left >= 1
    /\ bars[BarOffset(2) + 1].left = 0

====
